---- MODULE Spec2Model ----
(***************************************************************************)
(* Model of ehr-backend/app.py: a Flask service over a fixed in-process    *)
(* dataset (patient summaries, lab histories) with a medication order      *)
(* intake and an evidence search.                                          *)
(*                                                                         *)
(* Python strings that the code cuts, compares or joins are sequences of   *)
(* one-character strings, so that split/strip/lower/sorted/join/float/int  *)
(* are computed as the code computes them.  An optional value (a query     *)
(* argument, dict.get) is a sequence of length 0 (None) or 1.              *)
(***************************************************************************)
EXTENDS Integers, Sequences, FiniteSets, TLC

VARIABLES summaries, labs, request, http_response, pc, treq, filtered, tresp

vars == <<summaries, labs, request, http_response, pc, treq, filtered, tresp>>

(***************************************************************************)
(* Bounds of the model.                                                    *)
(***************************************************************************)
\* the largest number of comma-separated entries of a generated names argument
MaxNames == 2
\* the largest last_n generated (the longest lab history has 6 entries)
MaxLastN == 7
\* the number of distinct values uuid4() may return
NumUuids == 2
\* the number of concurrently served requests
NumThreads == 2

(***************************************************************************)
(* Python str primitives.                                                  *)
(***************************************************************************)
\* the characters in code point order
Ascii ==
    <<" ", "+", ",", "-", ".", "0", "1", "2", "3", "4", "5", "6", "7", "8", "9", ":",
      "A", "B", "C", "D", "E", "F", "G", "H", "I", "J", "K", "L", "M", "N", "O", "P",
      "Q", "R", "S", "T", "U", "V", "W", "X", "Y", "Z", "_",
      "a", "b", "c", "d", "e", "f", "g", "h", "i", "j", "k", "l", "m", "n", "o", "p",
      "q", "r", "s", "t", "u", "v", "w", "x", "y", "z">>

Ord(c) == CHOOSE i \in 1..Len(Ascii) : Ascii[i] = c

UpperLetters ==
    <<"A", "B", "C", "D", "E", "F", "G", "H", "I", "J", "K", "L", "M", "N", "O", "P",
      "Q", "R", "S", "T", "U", "V", "W", "X", "Y", "Z">>

LowerLetters ==
    <<"a", "b", "c", "d", "e", "f", "g", "h", "i", "j", "k", "l", "m", "n", "o", "p",
      "q", "r", "s", "t", "u", "v", "w", "x", "y", "z">>

DigitChars == <<"0", "1", "2", "3", "4", "5", "6", "7", "8", "9">>

IsDigit(c) == \E i \in 1..Len(DigitChars) : DigitChars[i] = c

DigitVal(c) == (CHOOSE i \in 1..Len(DigitChars) : DigitChars[i] = c) - 1

\* str.lower() on one character
LowerChar(c) ==
    IF \E i \in 1..Len(UpperLetters) : UpperLetters[i] = c
    THEN LowerLetters[CHOOSE i \in 1..Len(UpperLetters) : UpperLetters[i] = c]
    ELSE c

\* str.lower()
Lower(s) == [i \in 1..Len(s) |-> LowerChar(s[i])]

IsSpace(c) == c = " "

RECURSIVE LStrip(_)
LStrip(s) ==
    IF s # <<>> /\ IsSpace(Head(s)) THEN LStrip(Tail(s)) ELSE s

RECURSIVE RStrip(_)
RStrip(s) ==
    IF s # <<>> /\ IsSpace(s[Len(s)]) THEN RStrip(SubSeq(s, 1, Len(s) - 1)) ELSE s

\* str.strip()
Strip(s) == RStrip(LStrip(s))

\* str.split(sep) for a one-character separator: empty pieces are kept
RECURSIVE Split(_, _)
Split(s, sep) ==
    IF \E i \in 1..Len(s) : s[i] = sep
    THEN LET i == CHOOSE k \in 1..Len(s) :
                      s[k] = sep /\ \A j \in 1..(k - 1) : s[j] # sep
         IN  <<SubSeq(s, 1, i - 1)>> \o Split(SubSeq(s, i + 1, Len(s)), sep)
    ELSE <<s>>

\* sep.join(parts)
RECURSIVE Join(_, _)
Join(parts, sep) ==
    IF parts = <<>> THEN <<>>
    ELSE IF Len(parts) = 1 THEN parts[1]
    ELSE parts[1] \o sep \o Join(Tail(parts), sep)

\* a < b on str: by code point, a proper prefix first
RECURSIVE StrLess(_, _)
StrLess(a, b) ==
    IF b = <<>> THEN FALSE
    ELSE IF a = <<>> THEN TRUE
    ELSE IF Head(a) # Head(b) THEN Ord(Head(a)) < Ord(Head(b))
    ELSE StrLess(Tail(a), Tail(b))

\* the decimal digits of a natural number
RECURSIVE NatStr(_)
NatStr(n) ==
    IF n < 10 THEN <<DigitChars[n + 1]>>
    ELSE NatStr(n \div 10) \o <<DigitChars[(n % 10) + 1]>>

\* str(n) for an int
IntStr(n) == IF n < 0 THEN <<"-">> \o NatStr(0 - n) ELSE NatStr(n)

\* n zero-padded to width w, as strftime/isoformat print a field
RECURSIVE Pad(_, _)
Pad(s, w) == IF Len(s) < w THEN Pad(<<"0">> \o s, w) ELSE s

RECURSIVE DigitsVal(_)
DigitsVal(s) ==
    IF s = <<>> THEN 0 ELSE DigitsVal(SubSeq(s, 1, Len(s) - 1)) * 10 + DigitVal(s[Len(s)])

AllDigits(s) == s # <<>> /\ \A i \in 1..Len(s) : IsDigit(s[i])

\* int(s): <<n>>, or <<>> where Python raises ValueError
ParseInt(s) ==
    LET t == Strip(s)
        signed == t # <<>> /\ Head(t) \in {"+", "-"}
        d == IF signed THEN Tail(t) ELSE t
    IN  IF ~AllDigits(d) THEN <<>>
        ELSE IF signed /\ Head(t) = "-" THEN <<0 - DigitsVal(d)>>
        ELSE <<DigitsVal(d)>>

(***************************************************************************)
(* The dataset.                                                            *)
(***************************************************************************)
datetime(y, mo, d, h, mi) ==
    [year |-> y, month |-> mo, day |-> d, hour |-> h, minute |-> mi,
     second |-> 0, microsecond |-> 0]

\* dt.replace(microsecond=0).isoformat()
_iso(dt) ==
    Pad(NatStr(dt.year), 4) \o <<"-">> \o Pad(NatStr(dt.month), 2) \o <<"-">>
        \o Pad(NatStr(dt.day), 2) \o <<"T">> \o Pad(NatStr(dt.hour), 2) \o <<":">>
        \o Pad(NatStr(dt.minute), 2) \o <<":">> \o Pad(NatStr(dt.second), 2)

P12345 == <<"1", "2", "3", "4", "5">>

P12873 == <<"1", "2", "8", "7", "3">>

HbA1c == <<"H", "b", "A", "1", "c">>

eGFR == <<"e", "G", "F", "R">>

LDL == <<"L", "D", "L">>

\* numeric values are kept in tenths (7.4 is 74)
_PATIENT_SUMMARIES ==
    (P12345 :> [demographics |-> [name |-> "Jordan Matthews", age |-> 62,
                                  gender |-> "female", mrn |-> P12345],
                problems |-> <<"Type 2 diabetes mellitus", "CKD stage 3", "Hypertension">>,
                medications |-> <<"Metformin 1000 mg BID", "Lisinopril 20 mg daily">>,
                vitals |-> [systolic |-> 128, diastolic |-> 78, heart_rate |-> 72,
                            weight_kg |-> 825,
                            updated_at |-> _iso(datetime(2024, 9, 12, 9, 45))],
                last_a1c |-> 74, last_egfr |-> 540])
    @@
    (P12873 :> [demographics |-> [name |-> "Avery Patel", age |-> 58,
                                  gender |-> "female", mrn |-> P12873],
                problems |-> <<"Type 2 diabetes mellitus",
                               "Chronic kidney disease stage 3", "Hypertension">>,
                medications |-> <<"Metformin 1000 mg BID", "Losartan 50 mg daily">>,
                vitals |-> [systolic |-> 132, diastolic |-> 82, heart_rate |-> 76,
                            weight_kg |-> 798,
                            updated_at |-> _iso(datetime(2025, 9, 12, 9, 15))],
                last_a1c |-> 82, last_egfr |-> 440])

Lab(n, v, u, dt) == [name |-> n, value |-> v, unit |-> u, collected_at |-> _iso(dt)]

_PATIENT_LABS ==
    (P12345 :> << Lab(HbA1c, 74, "%", datetime(2024, 9, 10, 8, 30)),
                  Lab(HbA1c, 78, "%", datetime(2024, 6, 5, 8, 30)),
                  Lab(eGFR, 540, "mL/min/1.73m2", datetime(2024, 9, 10, 8, 35)),
                  Lab(eGFR, 580, "mL/min/1.73m2", datetime(2024, 3, 15, 8, 35)),
                  Lab(LDL, 820, "mg/dL", datetime(2024, 9, 1, 8, 0)) >>)
    @@
    (P12873 :> << Lab(HbA1c, 82, "%", datetime(2025, 9, 5, 8, 0)),
                  Lab(HbA1c, 86, "%", datetime(2025, 6, 2, 8, 10)),
                  Lab(HbA1c, 89, "%", datetime(2025, 3, 3, 8, 5)),
                  Lab(eGFR, 440, "mL/min/1.73m2", datetime(2025, 9, 12, 7, 55)),
                  Lab(eGFR, 460, "mL/min/1.73m2", datetime(2025, 6, 9, 7, 50)),
                  Lab(eGFR, 480, "mL/min/1.73m2", datetime(2025, 3, 10, 7, 45)) >>)

\* dict.get(key): <<value>>, or <<>> for None
DictGet(d, k) == IF k \in DOMAIN d THEN <<d[k]>> ELSE <<>>

(***************************************************************************)
(* Responses.                                                              *)
(***************************************************************************)
DetailPatientNotFound ==
    <<"P", "a", "t", "i", "e", "n", "t", " ", "n", "o", "t", " ", "f", "o", "u", "n", "d">>

DetailNoLabHistory ==
    <<"P", "a", "t", "i", "e", "n", "t", " ", "n", "o", "t", " ", "f", "o", "u", "n", "d",
      " ", "o", "r", " ", "n", "o", " ", "l", "a", "b", " ", "h", "i", "s", "t", "o", "r", "y">>

DetailLastN ==
    <<"l", "a", "s", "t", "_", "n", " ", "m", "u", "s", "t", " ", "b", "e", " ",
      "g", "r", "e", "a", "t", "e", "r", " ", "t", "h", "a", "n", " ", "z", "e", "r", "o">>

\* jsonify({"detail": d}), code
ErrorResponse(code, d) == [status |-> code, body |-> [detail |-> d]]

\* jsonify(b) with Flask's default status, or jsonify(b), code
JsonResponse(code, b) == [status |-> code, body |-> b]

(***************************************************************************)
(* GET /patients/<patient_id>/summary                                      *)
(***************************************************************************)
get_patient_summary(store, patient_id) ==
    LET summary == DictGet(store, patient_id)
    IN  IF summary = <<>> \/ DOMAIN summary[1] = {}
        THEN ErrorResponse(404, DetailPatientNotFound)
        ELSE JsonResponse(200, summary[1])

(***************************************************************************)
(* GET /patients/<patient_id>/labs                                         *)
(***************************************************************************)
\* request.args.get("last_n", type=int): a value int() rejects reads as None
ArgInt(raw) == IF raw = <<>> THEN <<>> ELSE ParseInt(raw[1])

\* {name.strip().lower() for name in names.split(",") if name.strip()}
AllowedNames(names) ==
    LET parts == Split(names, ",")
    IN  {Lower(Strip(parts[i])) : i \in {k \in 1..Len(parts) : Strip(parts[k]) # <<>>}}

KeepAllowed(lab_list, allowed) ==
    SelectSeq(lab_list, LAMBDA lab : Lower(lab.name) \in allowed)

\* lines 204-207: the copy of the history, filtered when names is truthy
FilterLabs(lab_history, names) ==
    IF names # <<>> /\ names[1] # <<>>
    THEN KeepAllowed(lab_history, AllowedNames(names[1]))
    ELSE lab_history

\* the sort without reverse=True
RECURSIVE InsertDesc_Ascending(_, _)
InsertDesc_Ascending(s, x) ==
    IF s = <<>> THEN <<x>>
    ELSE IF StrLess(x.collected_at, Head(s).collected_at) THEN <<x>> \o s
    ELSE <<Head(s)>> \o InsertDesc_Ascending(Tail(s), x)

\* x put behind every entry whose timestamp is not earlier than x's
RECURSIVE InsertDesc(_, _)
InsertDesc(s, x) ==
    IF s = <<>> THEN <<x>>
    ELSE IF StrLess(Head(s).collected_at, x.collected_at) THEN <<x>> \o s
    ELSE <<Head(s)>> \o InsertDesc(Tail(s), x)

\* sorted(filtered, key=lambda lab: lab["collected_at"], reverse=True): stable
RECURSIVE SortLabs(_)
SortLabs(s) ==
    IF s = <<>> THEN <<>>
    ELSE InsertDesc(SortLabs(SubSeq(s, 1, Len(s) - 1)), s[Len(s)])

\* filtered[:n] for n >= 1
Truncate(s, n) == SubSeq(s, 1, IF n < Len(s) THEN n ELSE Len(s))

\* the check written as last_n < 0
LabsResponse_ZeroAllowed(patient_id, sorted, last_n) ==
    IF last_n # <<>> /\ last_n[1] < 0
    THEN ErrorResponse(422, DetailLastN)
    ELSE JsonResponse(200, [patient_id |-> patient_id,
                            labs |-> IF last_n = <<>> THEN sorted
                                     ELSE Truncate(sorted, last_n[1])])

\* lines 211-222: the last_n check, the truncation and the response
LabsResponse(patient_id, sorted, last_n) ==
    IF last_n # <<>> /\ last_n[1] < 1
    THEN ErrorResponse(422, DetailLastN)
    ELSE JsonResponse(200, [patient_id |-> patient_id,
                            labs |-> IF last_n = <<>> THEN sorted
                                     ELSE Truncate(sorted, last_n[1])])

\* the last_n check made before the patient is looked up
get_patient_labs_LastNFirst(store, patient_id, names, last_n_arg) ==
    LET last_n == ArgInt(last_n_arg)
        lab_history == DictGet(store, patient_id)
    IN  IF last_n # <<>> /\ last_n[1] < 1
        THEN ErrorResponse(422, DetailLastN)
        ELSE IF lab_history = <<>> \/ lab_history[1] = <<>>
        THEN ErrorResponse(404, DetailNoLabHistory)
        ELSE LabsResponse(patient_id, SortLabs(FilterLabs(lab_history[1], names)), last_n)

get_patient_labs(store, patient_id, names, last_n_arg) ==
    LET last_n == ArgInt(last_n_arg)
        lab_history == DictGet(store, patient_id)
    IN  IF lab_history = <<>> \/ lab_history[1] = <<>>
        THEN ErrorResponse(404, DetailNoLabHistory)
        ELSE LabsResponse(patient_id, SortLabs(FilterLabs(lab_history[1], names)), last_n)

(***************************************************************************)
(* JSON request bodies.  A JSON value is [t, v]; a number's v is a float   *)
(* or int: "fin" is m / 10^k exactly, "inf" is m * infinity, "nan", and    *)
(* "bigint" is an int literal too large for a float.                       *)
(***************************************************************************)
JNull == [t |-> "null", v |-> <<>>]

JBool(b) == [t |-> "bool", v |-> b]

Fin(m, k) == [kind |-> "fin", m |-> m, k |-> k]

Inf(sign) == [kind |-> "inf", m |-> sign, k |-> 0]

NaN == [kind |-> "nan", m |-> 0, k |-> 0]

BigInt == [kind |-> "bigint", m |-> 1, k |-> 0]

JNum(f) == [t |-> "num", v |-> f]

JStr(s) == [t |-> "str", v |-> s]

JArr(a) == [t |-> "arr", v |-> a]

JObj(d) == [t |-> "obj", v |-> d]

EmptyDict == JObj(<<>>)

AbsentBody == [kind |-> "absent", value |-> JNull]

MalformedBody == [kind |-> "malformed", value |-> JNull]

JsonBody(j) == [kind |-> "json", value |-> j]

\* bool(x) of a parsed JSON value
Truthy(j) ==
    CASE j.t = "null" -> FALSE
      [] j.t = "bool" -> j.v
      [] j.t = "num" -> ~(j.v.kind = "fin" /\ j.v.m = 0)
      [] j.t = "str" -> j.v # <<>>
      [] j.t = "arr" -> j.v # <<>>
      [] j.t = "obj" -> DOMAIN j.v # {}

\* request.get_json(silent=True) or {}
GetPayload(body) ==
    IF body.kind = "json" /\ Truthy(body.value) THEN body.value ELSE EmptyDict

\* an exception no handler catches: Flask answers 500 with its HTML error page
Unhandled(exc) == [status |-> 500, body |-> [exception |-> exc]]

(***************************************************************************)
(* POST /orders/medication                                                 *)
(***************************************************************************)
F_patient_id == <<"p", "a", "t", "i", "e", "n", "t", "_", "i", "d">>

F_medication == <<"m", "e", "d", "i", "c", "a", "t", "i", "o", "n">>

F_dose == <<"d", "o", "s", "e">>

F_route == <<"r", "o", "u", "t", "e">>

F_frequency == <<"f", "r", "e", "q", "u", "e", "n", "c", "y">>

required_fields == {F_patient_id, F_medication, F_dose, F_route, F_frequency}

MissingPrefix ==
    <<"M", "i", "s", "s", "i", "n", "g", " ", "r", "e", "q", "u", "i", "r", "e", "d", " ",
      "f", "i", "e", "l", "d", "s", ":", " ">>

DraftPrefix == <<"d", "r", "a", "f", "t", "-">>

DraftCreated == <<"d", "r", "a", "f", "t", " ", "c", "r", "e", "a", "t", "e", "d">>

\* sorted(strs) of distinct strings
RECURSIVE SortedStrs(_)
SortedStrs(S) ==
    IF S = {} THEN <<>>
    ELSE LET least == CHOOSE x \in S : \A y \in S \ {x} : StrLess(x, y)
         IN  <<least>> \o SortedStrs(S \ {least})

\* the check stopped at the first missing field
MissingFields_FirstOnly(payload) ==
    SubSeq(SortedStrs({f \in required_fields : f \notin DOMAIN payload.v}), 1, 1)

\* sorted(field for field in required_fields if field not in payload)
MissingFields(payload) == SortedStrs({f \in required_fields : f \notin DOMAIN payload.v})

create_medication_order(body, uuid) ==
    LET payload == GetPayload(body)
    IN  IF payload.t # "obj" THEN Unhandled("AttributeError")
        ELSE LET missing == MissingFields(payload)
             IN  IF missing # <<>>
                 THEN ErrorResponse(400, MissingPrefix \o Join(missing, <<",", " ">>))
                 ELSE JsonResponse(201, [order_id |-> DraftPrefix \o uuid,
                                         status |-> DraftCreated])

(***************************************************************************)
(* POST /evidence/search                                                   *)
(***************************************************************************)
F_geo == <<"g", "e", "o">>

F_radius_km == <<"r", "a", "d", "i", "u", "s", "_", "k", "m">>

F_condition == <<"c", "o", "n", "d", "i", "t", "i", "o", "n">>

F_comorbidity == <<"c", "o", "m", "o", "r", "b", "i", "d", "i", "t", "y">>

DetailRadius ==
    <<"I", "n", "v", "a", "l", "i", "d", " ", "o", "r", " ", "m", "i", "s", "s", "i", "n", "g",
      " ", "g", "e", "o", ".", "r", "a", "d", "i", "u", "s", "_", "k", "m">>

\* the outcome of an expression that may raise
Value(x) == [raised |-> "", value |-> x]

Raise(exc) == [raised |-> exc, value |-> NaN]

\* float(s) for a str: surrounding blanks, a sign, then inf, infinity, nan (any
\* case) or decimal digits with at most one point; exponents are not modelled
ParseFloat(s) ==
    LET t == Strip(s)
        signed == t # <<>> /\ Head(t) \in {"+", "-"}
        sign == IF signed /\ Head(t) = "-" THEN 0 - 1 ELSE 1
        u == IF signed THEN Tail(t) ELSE t
        word == Lower(u)
        parts == Split(u, ".")
        whole == parts[1]
        frac == IF Len(parts) = 2 THEN parts[2] ELSE <<>>
    IN  IF word \in {<<"i", "n", "f">>, <<"i", "n", "f", "i", "n", "i", "t", "y">>}
        THEN Value(Inf(sign))
        ELSE IF word = <<"n", "a", "n">> THEN Value(NaN)
        ELSE IF /\ Len(parts) <= 2
                /\ whole \o frac # <<>>
                /\ \A i \in 1..Len(whole \o frac) : IsDigit((whole \o frac)[i])
        THEN Value(Fin(sign * DigitsVal(whole \o frac), Len(frac)))
        ELSE Raise("ValueError")

\* float(x) of a parsed JSON value
ToFloat(j) ==
    CASE j.t = "num" -> IF j.v.kind = "bigint" THEN Raise("OverflowError") ELSE Value(j.v)
      [] j.t = "bool" -> Value(Fin(IF j.v THEN 1 ELSE 0, 0))
      [] j.t = "str" -> ParseFloat(j.v)
      [] OTHER -> Raise("TypeError")

\* geo["radius_km"]
GeoRadius(geo) ==
    IF geo.t # "obj" THEN Raise("TypeError")
    ELSE IF F_radius_km \notin DOMAIN geo.v THEN Raise("KeyError")
    ELSE Value(geo.v[F_radius_km])

\* float(geo["radius_km"])
RadiusKm(geo) ==
    LET item == GeoRadius(geo)
    IN  IF item.raised # "" THEN Raise(item.raised) ELSE ToFloat(item.value)

RECURSIVE Pow10(_)
Pow10(n) == IF n = 0 THEN 1 ELSE 10 * Pow10(n - 1)

\* a <= b for a finite float a; a comparison with nan is False
FloatLeq(a, b) ==
    CASE b.kind = "nan" -> FALSE
      [] b.kind = "inf" -> b.m > 0
      [] OTHER -> a.m * Pow10(b.k) <= b.m * Pow10(a.k)

guideline_ids == <<"ADA-2024-DM2">>

rct_ids == <<"NCT01234567", "NCT07654321">>

all_trials ==
    << [id |-> "NCT05566789", name |-> "Renal Outcomes in Diabetes",
        distance_km |-> Fin(124, 1),
        eligibility_summary |-> "Adults 40-75 with type 2 diabetes and eGFR 45-60"],
       [id |-> "NCT08899881", name |-> "Cardiometabolic Risk Reduction Study",
        distance_km |-> Fin(480, 1),
        eligibility_summary |->
            "Type 2 diabetes with uncontrolled A1c > 7 despite therapy"] >>

\* the [:2] of nearby_trials
MaxNearbyTrials == 2

\* the comparison written as <
WithinRadius_Strict(trial, radius_km) ==
    FloatLeq(trial.distance_km, radius_km) /\ ~FloatLeq(radius_km, trial.distance_km)

\* trial["distance_km"] <= radius_km
WithinRadius(trial, radius_km) == FloatLeq(trial.distance_km, radius_km)

NearbyTrials(trials, radius_km) ==
    Truncate(SelectSeq(trials, LAMBDA trial : WithinRadius(trial, radius_km)),
             MaxNearbyTrials)

search_evidence(body) ==
    LET payload == GetPayload(body)
    IN  IF payload.t # "obj" THEN Unhandled("AttributeError")
        ELSE LET g == DictGet(payload.v, F_geo)
                 geo == IF g = <<>> \/ ~Truthy(g[1]) THEN EmptyDict ELSE g[1]
                 radius_km == RadiusKm(geo)
             IN  IF radius_km.raised \in {"TypeError", "KeyError", "ValueError"}
                 THEN ErrorResponse(400, DetailRadius)
                 ELSE IF radius_km.raised # "" THEN Unhandled(radius_km.raised)
                 ELSE JsonResponse(200,
                          [guideline_ids |-> guideline_ids,
                           rct_ids |-> rct_ids,
                           nearby_trials |-> NearbyTrials(all_trials, radius_km.value)])

(***************************************************************************)
(* GET /health                                                             *)
(***************************************************************************)
health == JsonResponse(200, [status |-> <<"o", "k">>])

(***************************************************************************)
(* Requests that are enumerated.                                           *)
(***************************************************************************)
P99999 == <<"9", "9", "9", "9", "9">>

PatientIds == {P12345, P12873, P99999}

NameTokens ==
    { <<>>, <<" ">>, <<"h", "b", "a", "1", "c">>, <<" ", "E", "G", "F", "R", " ">>,
      LDL, <<"x", "y", "z">> }

RECURSIVE TokenSeqs(_)
TokenSeqs(n) ==
    IF n = 0 THEN {<<>>}
    ELSE LET shorter == TokenSeqs(n - 1)
         IN  shorter \cup {Append(q, t) : q \in {p \in shorter : Len(p) = n - 1},
                                          t \in NameTokens}

NamesArgs == {<<>>} \cup {<<Join(q, <<",">>)>> : q \in TokenSeqs(MaxNames)}

LastNArgs ==
    {<<>>} \cup {<<IntStr(n)>> : n \in (0 - 2)..MaxLastN}
           \cup {<<<<"a", "b", "c">>>>, <<<<" ", "2", " ">>>>, <<<<"+", "3">>>>}

\* the values uuid4() may return
Uuids == {<<"u">> \o NatStr(i) : i \in 1..NumUuids}

F_note == <<"n", "o", "t", "e">>

\* bodies that are not a JSON object with keys
OddBodies ==
    {AbsentBody, MalformedBody} \cup
    {JsonBody(j) : j \in {JNull, JBool(FALSE), JBool(TRUE), JNum(Fin(0, 0)), JNum(Fin(5, 0)),
                           JStr(<<>>), JStr(<<"a", "b", "c">>), JArr(<<>>),
                           JArr(<<JNum(Fin(1, 0))>>), EmptyDict}}

OrderValues(k) ==
    IF k = F_patient_id THEN {JStr(P12345), JStr(P99999), JStr(<<>>), JNull}
    ELSE {JStr(<<"x">>), JStr(<<>>), JNull}

OrderObjects ==
    UNION {{JObj(d) : d \in {f \in [K -> UNION {OrderValues(k) : k \in K}] :
                                 \A k \in K : f[k] \in OrderValues(k)}} :
           K \in (SUBSET (required_fields \cup {F_note})) \ {{}}}

OrderBodies == OddBodies \cup {JsonBody(j) : j \in OrderObjects}

RadiusValues ==
    {JNum(Fin(0, 0)), JNum(Fin(124, 1)), JNum(Fin(123, 1)), JNum(Fin(13, 0)),
     JNum(Fin(48, 0)), JNum(Fin(4799, 2)), JNum(Fin(50, 0)), JNum(Fin(0 - 5, 0)),
     JNum(Inf(1)), JNum(Inf(0 - 1)), JNum(NaN), JNum(BigInt),
     JBool(TRUE), JBool(FALSE), JNull, JArr(<<JNum(Fin(13, 0))>>), EmptyDict,
     JStr(<<"1", "3">>), JStr(<<" ", "1", "2", ".", "4", " ">>), JStr(<<"4", "8", ".", "0">>),
     JStr(<<"+", "5", "0">>), JStr(<<"-", "5">>), JStr(<<".", "5">>), JStr(<<"a", "b", "c">>),
     JStr(<<>>), JStr(<<"i", "n", "f">>), JStr(<<"-", "I", "n", "f", "i", "n", "i", "t", "y">>),
     JStr(<<"n", "a", "n">>), JStr(<<"1", "2", ".", "4", ".", "1">>)}

GeoValues ==
    {JNull, JStr(<<"a", "b", "c">>), JArr(<<JNum(Fin(13, 0))>>), JNum(Fin(13, 0)),
     JBool(TRUE), EmptyDict, JObj(F_note :> JStr(<<"x">>))}
    \cup {JObj(F_radius_km :> r) : r \in RadiusValues}

EvidenceObjects ==
    {JObj(d) : d \in
        UNION {{f \in [K -> GeoValues \cup {JStr(<<"x">>)}] :
                    \A k \in K : (k = F_geo) <=> (f[k] \in GeoValues)} :
               K \in (SUBSET {F_condition, F_comorbidity, F_geo}) \ {{}}}}

EvidenceBodies == OddBodies \cup {JsonBody(j) : j \in EvidenceObjects}

Threads == 1..NumThreads

NoRequest == [endpoint |-> "none"]

NoResponse == [status |-> 0, body |-> [detail |-> <<>>]]

Init ==
    /\ summaries = _PATIENT_SUMMARIES
    /\ labs = _PATIENT_LABS
    /\ request = NoRequest
    /\ http_response = NoResponse
    /\ pc = [t \in Threads |-> "idle"]
    /\ treq = [t \in Threads |-> NoRequest]
    /\ filtered = [t \in Threads |-> <<>>]
    /\ tresp = [t \in Threads |-> NoResponse]

\* the server takes one request at a time here: a handler runs when no response is pending
Idle == request = NoRequest

Summary ==
    \E patient_id \in PatientIds :
        /\ Idle
        /\ request' = [endpoint |-> "summary", patient_id |-> patient_id]
        /\ http_response' = get_patient_summary(summaries, patient_id)
        /\ UNCHANGED <<summaries, labs, pc, treq, filtered, tresp>>

Labs ==
    \E patient_id \in PatientIds, names \in NamesArgs, last_n \in LastNArgs :
        /\ Idle
        /\ request' = [endpoint |-> "labs", patient_id |-> patient_id,
                   names |-> names, last_n |-> last_n]
        /\ http_response' = get_patient_labs(labs, patient_id, names, last_n)
        /\ UNCHANGED <<summaries, labs, pc, treq, filtered, tresp>>

Order ==
    \E body \in OrderBodies, uuid \in Uuids :
        /\ Idle
        /\ request' = [endpoint |-> "order", body |-> body]
        /\ http_response' = create_medication_order(body, uuid)
        /\ UNCHANGED <<summaries, labs, pc, treq, filtered, tresp>>

Evidence ==
    \E body \in EvidenceBodies :
        /\ Idle
        /\ request' = [endpoint |-> "evidence", body |-> body]
        /\ http_response' = search_evidence(body)
        /\ UNCHANGED <<summaries, labs, pc, treq, filtered, tresp>>

Health ==
    /\ Idle
    /\ request' = [endpoint |-> "health"]
    /\ http_response' = health
    /\ UNCHANGED <<summaries, labs, pc, treq, filtered, tresp>>

\* the response is sent and the request's state is dropped
Deliver ==
    /\ ~Idle
    /\ request' = NoRequest
    /\ http_response' = NoResponse
    /\ UNCHANGED <<summaries, labs, pc, treq, filtered, tresp>>

Next == Summary \/ Labs \/ Order \/ Evidence \/ Health \/ Deliver

Spec == Init /\ [][Next]_vars

(***************************************************************************)
(* Requests served concurrently: each thread runs its handler in the steps *)
(* at which another thread may run in between.                             *)
(***************************************************************************)
ConcRequests ==
    {[endpoint |-> "summary", patient_id |-> p] : p \in {P12345, P99999}}
    \cup {[endpoint |-> "labs", patient_id |-> p, names |-> n, last_n |-> l] :
            p \in {P12345, P99999},
            n \in {<<>>, <<<<"h", "b", "a", "1", "c", ",", "L", "D", "L">>>>},
            l \in {<<>>, <<<<"0">>>>, <<<<"2">>>>}}
    \cup {[endpoint |-> "order", body |-> b] :
            b \in {AbsentBody, JsonBody(JObj([k \in required_fields |-> JStr(<<"x">>)]))}}
    \cup {[endpoint |-> "evidence", body |-> b] :
            b \in {AbsentBody,
                   JsonBody(JObj(F_geo :> JObj(F_radius_km :> JNum(Fin(13, 0)))))}}

\* the history sorted in place: lab_history.sort(...) on the list it was filtered into
LabsAfterSort_InPlace(store, patient_id, sorted) == [store EXCEPT ![patient_id] = sorted]

\* what lines 204 and 209 leave in _PATIENT_LABS: list() and sorted() build new lists
LabsAfterSort(store, patient_id, sorted) == store

\* the request is routed to its handler
TReceive(t) ==
    \E r \in ConcRequests :
        /\ pc[t] = "idle"
        /\ treq' = [treq EXCEPT ![t] = r]
        /\ pc' = [pc EXCEPT ![t] = r.endpoint]
        /\ UNCHANGED <<summaries, labs, request, http_response, filtered, tresp>>

TSummary(t) ==
    /\ pc[t] = "summary"
    /\ tresp' = [tresp EXCEPT ![t] = get_patient_summary(summaries, treq[t].patient_id)]
    /\ pc' = [pc EXCEPT ![t] = "done"]
    /\ UNCHANGED <<summaries, labs, request, http_response, treq, filtered>>

\* lines 199-202
TLabsLookup(t) ==
    /\ pc[t] = "labs"
    /\ LET lab_history == DictGet(labs, treq[t].patient_id)
       IN  IF lab_history = <<>> \/ lab_history[1] = <<>>
           THEN /\ tresp' = [tresp EXCEPT ![t] = ErrorResponse(404, DetailNoLabHistory)]
                /\ pc' = [pc EXCEPT ![t] = "done"]
           ELSE /\ tresp' = tresp
                /\ pc' = [pc EXCEPT ![t] = "filter"]
    /\ UNCHANGED <<summaries, labs, request, http_response, treq, filtered>>

\* lines 204-207: lab_history refers to the shared list, read when it is copied
TLabsFilter(t) ==
    /\ pc[t] = "filter"
    /\ filtered' = [filtered EXCEPT ![t] = FilterLabs(labs[treq[t].patient_id], treq[t].names)]
    /\ pc' = [pc EXCEPT ![t] = "sort"]
    /\ UNCHANGED <<summaries, labs, request, http_response, treq, tresp>>

\* line 209
TLabsSort(t) ==
    /\ pc[t] = "sort"
    /\ filtered' = [filtered EXCEPT ![t] = SortLabs(filtered[t])]
    /\ labs' = LabsAfterSort(labs, treq[t].patient_id, SortLabs(filtered[t]))
    /\ pc' = [pc EXCEPT ![t] = "respond"]
    /\ UNCHANGED <<summaries, request, http_response, treq, tresp>>

\* lines 211-222
TLabsRespond(t) ==
    /\ pc[t] = "respond"
    /\ tresp' = [tresp EXCEPT ![t] =
                    LabsResponse(treq[t].patient_id, filtered[t], ArgInt(treq[t].last_n))]
    /\ pc' = [pc EXCEPT ![t] = "done"]
    /\ UNCHANGED <<summaries, labs, request, http_response, treq, filtered>>

TOrder(t) ==
    \E uuid \in Uuids :
        /\ pc[t] = "order"
        /\ tresp' = [tresp EXCEPT ![t] = create_medication_order(treq[t].body, uuid)]
        /\ pc' = [pc EXCEPT ![t] = "done"]
        /\ UNCHANGED <<summaries, labs, request, http_response, treq, filtered>>

TEvidence(t) ==
    /\ pc[t] = "evidence"
    /\ tresp' = [tresp EXCEPT ![t] = search_evidence(treq[t].body)]
    /\ pc' = [pc EXCEPT ![t] = "done"]
    /\ UNCHANGED <<summaries, labs, request, http_response, treq, filtered>>

\* the response is sent and the thread's locals are dropped
TDeliver(t) ==
    /\ pc[t] = "done"
    /\ pc' = [pc EXCEPT ![t] = "idle"]
    /\ treq' = [treq EXCEPT ![t] = NoRequest]
    /\ filtered' = [filtered EXCEPT ![t] = <<>>]
    /\ tresp' = [tresp EXCEPT ![t] = NoResponse]
    /\ UNCHANGED <<summaries, labs, request, http_response>>

ConcNext ==
    \E t \in Threads :
        \/ TReceive(t)
        \/ TSummary(t)
        \/ TLabsLookup(t)
        \/ TLabsFilter(t)
        \/ TLabsSort(t)
        \/ TLabsRespond(t)
        \/ TOrder(t)
        \/ TEvidence(t)
        \/ TDeliver(t)

ConcSpec == Init /\ [][ConcNext]_vars

(***************************************************************************)
(* Properties.                                                             *)
(***************************************************************************)
Range(s) == {s[i] : i \in 1..Len(s)}

Min(a, b) == IF a < b THEN a ELSE b

KnownPatients == DOMAIN _PATIENT_LABS

\* the requested patient's stored history
History == _PATIENT_LABS[request.patient_id]

\* the number of observations of the history the names filter keeps
MatchCount == Len(FilterLabs(History, request.names))

\* the answer to the same query sent without last_n
WholeList == get_patient_labs(labs, request.patient_id, request.names, <<>>).body.labs

\* C1: on a known patient, last_n < 1 is answered 422 'last_n must be greater than
\* zero' whatever the names filter is; last_n >= 1 returns exactly the first last_n
\* entries of the filtered, sorted list, so min(last_n, filtered length) entries; and
\* without last_n the whole filtered list is returned.
C1_LastNTruncation ==
    (request.endpoint = "labs" /\ request.patient_id \in KnownPatients) =>
        /\ \A k \in (0 - 2)..MaxLastN :
              (request.last_n = <<IntStr(k)>>) =>
                  IF k < 1 THEN http_response = ErrorResponse(422, DetailLastN)
                  ELSE /\ http_response.status = 200
                       /\ Len(http_response.body.labs) = Min(k, MatchCount)
                       /\ http_response.body.labs = SubSeq(WholeList, 1, Min(k, Len(WholeList)))
        /\ (request.last_n = <<>>) =>
              /\ http_response.status = 200
              /\ Len(http_response.body.labs) = MatchCount

\* a truncating query: 2 of the 3 observations a names filter keeps are returned
C1_Witness ==
    /\ request.endpoint = "labs"
    /\ request.patient_id = P12345
    /\ request.names = <<<<"h", "b", "a", "1", "c", ",", "L", "D", "L">>>>
    /\ request.last_n = <<<<"2">>>>
    /\ MatchCount = 3
    /\ http_response.status = 200
    /\ Len(http_response.body.labs) = 2

\* the date and time an ISO timestamp prints, as numbers
TimeOf(ts) ==
    <<DigitsVal(SubSeq(ts, 1, 4)), DigitsVal(SubSeq(ts, 6, 7)), DigitsVal(SubSeq(ts, 9, 10)),
      DigitsVal(SubSeq(ts, 12, 13)), DigitsVal(SubSeq(ts, 15, 16)),
      DigitsVal(SubSeq(ts, 18, 19))>>

RECURSIVE Earlier(_, _)
Earlier(a, b) ==
    IF a = <<>> THEN FALSE
    ELSE IF Head(a) # Head(b) THEN Head(a) < Head(b)
    ELSE Earlier(Tail(a), Tail(b))

NotEarlier(x, y) == ~Earlier(TimeOf(x.collected_at), TimeOf(y.collected_at))

\* C2: every successful labs answer is ordered by collection time, most recent
\* first, and holds observations the filter keeps, each of them at least as recent as
\* every kept observation that is left out (truncation comes after sorting).
C2_LabOrdering ==
    (request.endpoint = "labs" /\ http_response.status = 200) =>
        LET out == http_response.body.labs
            kept == Range(FilterLabs(History, request.names))
        IN  /\ \A i, j \in 1..Len(out) : i < j => NotEarlier(out[i], out[j])
            /\ Range(out) \subseteq kept
            /\ \A x \in Range(out), y \in kept \ Range(out) : NotEarlier(x, y)

\* the two most recent of five observations that are not stored in time order
C2_Witness ==
    /\ request.endpoint = "labs"
    /\ request.patient_id = P12345
    /\ request.names = <<>>
    /\ request.last_n = <<<<"2">>>>
    /\ http_response.status = 200
    /\ Len(http_response.body.labs) = 2
    /\ http_response.body.labs[1] = History[3]
    /\ http_response.body.labs[2] = History[1]

\* the test names a names argument lists: its entries without surrounding blanks,
\* in lower case, blank entries dropped
ListedNames(names) == {Lower(Strip(e)) : e \in Range(Split(names, ","))} \ {<<>>}

\* C3: an observation is kept if and only if its test name equals, ignoring case
\* and the blanks around the entry, one entry of the names filter; an absent filter and
\* a filter that lists no test name (empty, or only commas and blanks) keep all.
C3_NameFilter ==
    (request.endpoint = "labs" /\ http_response.status = 200 /\ request.last_n = <<>>) =>
        Range(http_response.body.labs) =
            {lab \in Range(History) :
                \/ request.names = <<>>
                \/ ListedNames(request.names[1]) = {}
                \/ Lower(lab.name) \in ListedNames(request.names[1])}

\* C4 as stated: an unknown identifier is answered 404 by both endpoints whatever
\* names and last_n are, and for a known identifier both endpoints succeed, the
\* summary's mrn being the identifier.
C4_NotFoundAsStated ==
    /\ (request.endpoint = "summary") =>
          IF request.patient_id \in DOMAIN _PATIENT_SUMMARIES
          THEN /\ http_response.status = 200
               /\ http_response.body.demographics.mrn = request.patient_id
          ELSE http_response = ErrorResponse(404, DetailPatientNotFound)
    /\ (request.endpoint = "labs") =>
          IF request.patient_id \in KnownPatients
          THEN http_response.status = 200
          ELSE http_response = ErrorResponse(404, DetailNoLabHistory)

\* C4 amended: an unknown identifier is answered 404 by both endpoints whatever
\* names and last_n are; for a known identifier the summary succeeds with mrn equal to
\* the identifier, and the labs endpoint succeeds unless last_n is present and below
\* 1, which is answered 422.
C4_NotFound ==
    /\ (request.endpoint = "summary") =>
          IF request.patient_id \in DOMAIN _PATIENT_SUMMARIES
          THEN /\ http_response.status = 200
               /\ http_response.body.demographics.mrn = request.patient_id
          ELSE http_response = ErrorResponse(404, DetailPatientNotFound)
    /\ (request.endpoint = "labs") =>
          IF request.patient_id \in KnownPatients
          THEN IF \E k \in (0 - 2)..0 : request.last_n = <<IntStr(k)>>
               THEN http_response = ErrorResponse(422, DetailLastN)
               ELSE /\ http_response.status = 200
                    /\ http_response.body.patient_id = request.patient_id
          ELSE http_response = ErrorResponse(404, DetailNoLabHistory)

\* an unknown patient asked for with a last_n of 0 is answered 404, not 422
C4_Witness ==
    /\ request.endpoint = "labs"
    /\ request.patient_id = P99999
    /\ request.last_n = <<<<"0">>>>
    /\ request.names # <<>>
    /\ http_response = ErrorResponse(404, DetailNoLabHistory)

\* the request body is a JSON object (an empty one included)
ObjectBody == request.body.kind = "json" /\ request.body.value.t = "obj"

\* the required keys in alphabetical order
AlphabeticalFields == <<F_dose, F_frequency, F_medication, F_patient_id, F_route>>

\* the required keys the request body lacks
MissingKeys == required_fields \ DOMAIN request.body.value.v

\* C5: an order whose JSON object lacks required keys is answered 400 with a detail
\* that lists exactly the missing keys, each once, alphabetically, joined by ', ';
\* an order that has them all is answered 201 'draft created' with a non-empty
\* identifier, whatever the patient identifier is.
C5_OrderValidation ==
    (request.endpoint = "order" /\ ObjectBody) =>
        IF MissingKeys # {}
        THEN http_response = ErrorResponse(400,
                 MissingPrefix \o Join(SelectSeq(AlphabeticalFields,
                                                 LAMBDA f : f \in MissingKeys),
                                       <<",", " ">>))
        ELSE /\ http_response.status = 201
             /\ http_response.body.status = DraftCreated
             /\ http_response.body.order_id # <<>>
             /\ Len(http_response.body.order_id) > Len(DraftPrefix)

\* a payload without dose and route is answered 'Missing required fields: dose, route'
C5_Witness ==
    /\ request.endpoint = "order"
    /\ ObjectBody
    /\ MissingKeys = {F_dose, F_route}
    /\ F_note \in DOMAIN request.body.value.v
    /\ http_response.status = 400
    /\ http_response.body.detail =
          <<"M", "i", "s", "s", "i", "n", "g", " ", "r", "e", "q", "u", "i", "r", "e", "d",
            " ", "f", "i", "e", "l", "d", "s", ":", " ", "d", "o", "s", "e", ",", " ",
            "r", "o", "u", "t", "e">>

\* C6: an order is accepted (201) only if all five required fields are present
\* and none of them is empty (an empty string or null).
C6_NonEmptyFields ==
    (request.endpoint = "order" /\ http_response.status = 201) =>
        /\ ObjectBody
        /\ \A f \in required_fields :
              /\ f \in DOMAIN request.body.value.v
              /\ request.body.value.v[f] \notin {JNull, JStr(<<>>)}

\* the payload the handler works on is a JSON object: the body is one, or it is
\* absent, malformed or falsy and read as {}
ObjectPayload == GetPayload(request.body).t = "obj"

\* geo.radius_km of the request is there and is a finite real number >= 0
RadiusAcceptable ==
    LET payload == GetPayload(request.body).v
    IN  /\ F_geo \in DOMAIN payload
        /\ payload[F_geo].t = "obj"
        /\ F_radius_km \in DOMAIN payload[F_geo].v
        /\ LET r == ToFloat(payload[F_geo].v[F_radius_km])
           IN  r.raised = "" /\ r.value.kind = "fin" /\ r.value.m >= 0

\* C7: an evidence search is accepted only when geo.radius_km parses as a finite
\* real number >= 0; a missing geo or radius_km, an unparsable, a negative and a
\* non-finite value are each answered 400 'Invalid or missing geo.radius_km'.
C7_RadiusValidation ==
    (request.endpoint = "evidence" /\ ObjectPayload) =>
        /\ (http_response.status = 200) => RadiusAcceptable
        /\ (~RadiusAcceptable) => http_response = ErrorResponse(400, DetailRadius)

\* the radius an accepted search was sent
SentRadius == RadiusKm(request.body.value.v[F_geo]).value

\* the catalog positions of the trials within the radius
Within == {i \in 1..Len(all_trials) : FloatLeq(all_trials[i].distance_km, SentRadius)}

\* C8: an accepted evidence search returns the catalog trials whose distance is
\* <= radius_km, the boundary included, in catalog order, the first 2 of them at
\* most; guideline_ids and rct_ids are the same lists for every request.
C8_NearbyTrials ==
    (request.endpoint = "evidence" /\ http_response.status = 200) =>
        LET out == http_response.body.nearby_trials
            n == Min(MaxNearbyTrials, Cardinality(Within))
        IN  /\ Len(out) = n
            /\ \A j \in 1..n :
                  \E i \in Within :
                      /\ Cardinality({m \in Within : m < i}) = j - 1
                      /\ out[j] = all_trials[i]
            /\ http_response.body.guideline_ids = <<"ADA-2024-DM2">>
            /\ http_response.body.rct_ids = <<"NCT01234567", "NCT07654321">>

\* a radius of exactly 12.4 km, sent as a string, with a condition: the trial at 12.4 km
C8_Witness ==
    /\ request.endpoint = "evidence"
    /\ http_response.status = 200
    /\ F_condition \in DOMAIN request.body.value.v
    /\ request.body.value.v[F_geo].v[F_radius_km] = JStr(<<" ", "1", "2", ".", "4", " ">>)
    /\ Len(http_response.body.nearby_trials) = 1
    /\ http_response.body.nearby_trials[1].id = "NCT05566789"

\* C10: whatever body is sent to the two POST endpoints, the answer is a documented
\* one: 200, 201 or 400, a failure carrying a detail; an absent or malformed body is
\* read as an empty payload, so that order intake lists all five fields and evidence
\* search answers 'Invalid or missing geo.radius_km'.
C10_StructuredResponses ==
    (request.endpoint \in {"order", "evidence"}) =>
        /\ http_response.status \in {200, 201, 400}
        /\ (http_response.status = 400) => "detail" \in DOMAIN http_response.body
        /\ (request.body.kind \in {"absent", "malformed"}) =>
              http_response = IF request.endpoint = "order"
                     THEN ErrorResponse(400, MissingPrefix
                              \o Join(AlphabeticalFields, <<",", " ">>))
                     ELSE ErrorResponse(400, DetailRadius)

\* the answers a request gets when it is served alone from the dataset as loaded
SequentialResults(r) ==
    CASE r.endpoint = "summary" -> {get_patient_summary(_PATIENT_SUMMARIES, r.patient_id)}
      [] r.endpoint = "labs" ->
            {get_patient_labs(_PATIENT_LABS, r.patient_id, r.names, r.last_n)}
      [] r.endpoint = "order" -> {create_medication_order(r.body, u) : u \in Uuids}
      [] r.endpoint = "evidence" -> {search_evidence(r.body)}

\* C9: under every interleaving of requests the dataset, the stored order of each
\* lab list included, stays as loaded, and each answer is one the same request gets
\* when it is served alone.
C9_DatasetImmutable ==
    /\ labs = _PATIENT_LABS
    /\ summaries = _PATIENT_SUMMARIES
    /\ \A t \in Threads : (pc[t] = "done") => tresp[t] \in SequentialResults(treq[t])

\* two filtered labs queries on one patient in flight: one sorted, the other answered
C9_Witness ==
    \E t, u \in Threads :
        /\ t # u
        /\ pc[t] = "respond"
        /\ pc[u] = "done"
        /\ treq[t].endpoint = "labs"
        /\ treq[u].endpoint = "labs"
        /\ treq[t].patient_id = P12345
        /\ treq[u].patient_id = P12345
        /\ treq[t].names # <<>>
        /\ Len(filtered[t]) = 3
        /\ tresp[u].status = 200

====
